---- MODULE Spec2Model ----
(***************************************************************************)
(* Forecasting core of capstone_project_unfc: the class-level artifact     *)
(* caches (chronos2.py, prophet_xgb.py), the forecaster lifecycle          *)
(* (base.py, lstm.py, prophet.py, chronos2.py, prophet_xgb.py) and the     *)
(* walk-forward evaluator (metrics.py).                                    *)
(*                                                                         *)
(* Three specifications share the module: SpecCache (concurrent cache      *)
(* users), SpecForecast (one forecaster instance, fit / forecast) and      *)
(* SpecEval (one walk_forward_backtest_last_n_weeks call).                 *)
(***************************************************************************)
EXTENDS Integers, Sequences, FiniteSets, TLC

None == "None"

(***************************************************************************)
(* Bounds of the model.                                                    *)
(***************************************************************************)
\* invocations each pool worker runs
MaxCalls == 2
\* longest price series handed to fit
MaxLen == 10
\* largest forecast horizon (periods)
MaxHorizon == 2
\* fit / forecast calls made on one forecaster instance
MaxOps == 2
\* largest walk-forward window (last_n_weeks)
MaxWindow == 6
\* (actual, predicted) pairs handed to the error aggregator
MaxPairs == 3

(***************************************************************************)
(* Program constants.                                                      *)
(***************************************************************************)
\* ThreadPoolExecutor(max_workers=2)
MaxWorkers == 2
\* metrics.py: minimum training sizes of the walk-forward backtest
MIN_TRAIN_WEEKLY == 52
MIN_TRAIN_MONTHLY == 24
\* metrics.py: fewest backtest points that give metrics
MIN_BACKTEST_POINTS == 5

VARIABLES
    \* ---- artifact caches (class attributes) and their concurrent users
    artifact,            \* ProphetXGBForecaster._artifact
    artifact_path,       \* ProphetXGBForecaster._artifact_path
    PIPELINE,            \* Chronos2Forecaster._PIPELINE
    PIPELINE_MODEL_ID,   \* Chronos2Forecaster._PIPELINE_MODEL_ID
    PIPELINE_DEVICE,     \* Chronos2Forecaster._PIPELINE_DEVICE
    worker,              \* per pool worker: position in the cache routine
    calls,               \* per pool worker: invocations started
    built,               \* per cache key: constructions while the key stayed cached
    \* ---- one forecaster instance and the last call made on it
    env,                 \* the deployment: which optional packages / files exist
    inst,                \* the instance's attributes (self.*)
    call,                \* the last call: operation, arguments, exception, result
    fitCompleted,        \* history: a fit call has returned normally on inst
    ops,                 \* calls made on inst so far
    \* ---- one walk_forward_backtest_last_n_weeks call
    req,                 \* its arguments
    ev,                  \* its position: phase, model index, loop index k
    records,             \* the (actual, predicted) pairs of the current model
    metrics_list,        \* metrics_list
    bounds_list,         \* bounds_list
    response,            \* the returned dict: its "error" entry, once returned
    attempted,           \* history: the <<model index, k>> steps that reached the try block
    succeeded,           \* history: per model index, the steps that gave a prediction
    constructed,         \* history: forecaster instances constructed
    \* ---- one _mae_rmse_mape call
    pairs,               \* its arguments: the (actual, predicted) pairs
    agg,                 \* what it returned
    \* ---- one request to a forecast endpoint
    http,                \* the request, the worker's outcome, the response
    \* ---- history of the fit calls
    given,               \* the series handed to the last fit, where fit is observed
    \* ---- the assets table and one DELETE /api/v1/assets/{symbol} request
    db,                  \* the rows of the table and the queries of the current request
    rest,                \* the request, the handler's position, the response
    \* ---- ForecastingFactory (data_engine/forecasting/factory.py)
    models,              \* ForecastingFactory._models
    fcall                \* the last call on the factory and its outcome

cacheVars == <<artifact, artifact_path, PIPELINE, PIPELINE_MODEL_ID,
               PIPELINE_DEVICE, worker, calls, built>>

fcVars == <<env, inst, call, fitCompleted, ops>>

evVars == <<req, ev, records, metrics_list, bounds_list, response, attempted,
            succeeded, constructed>>

restVars == <<db, rest>>

facVars == <<models, fcall>>

extVars == <<restVars, facVars>>

auxVars == <<pairs, agg, http, given, extVars>>

vars == <<cacheVars, fcVars, evVars, auxVars>>

notCacheVars == <<fcVars, evVars, auxVars>>

(***************************************************************************)
(* Numbers.  Prices and bounds are integers counted in ticks of 1e-5, so   *)
(* that round(x, 4) is a rounding to a multiple of 10 ticks.               *)
(***************************************************************************)
Max(a, b) == IF a >= b THEN a ELSE b

Min(a, b) == IF a <= b THEN a ELSE b

\* round(x, 4): nearest multiple of 1e-4, ties to the even one
Round4(x) ==
    LET q == x \div 10
        r == x % 10
    IN IF r < 5 THEN 10 * q
       ELSE IF r > 5 THEN 10 * (q + 1)
       ELSE IF q % 2 = 0 THEN 10 * q ELSE 10 * (q + 1)

RECURSIVE SqrtSearch(_, _, _)
\* the largest r in lo..hi with r * r <= x
SqrtSearch(x, lo, hi) ==
    IF lo >= hi THEN lo
    ELSE LET mid == (lo + hi + 1) \div 2
         IN IF mid * mid <= x THEN SqrtSearch(x, mid, hi)
            ELSE SqrtSearch(x, lo, mid - 1)

\* np.sqrt(h), in thousandths
SqrtMilli(h) == SqrtSearch(h * 1000000, 0, 1000 * h)

\* confidence levels requests use, in percent
Confidences == {80, 95}

\* norm.ppf((1 + confidence_level) / 2), in hundredths
NormPpf(confidence) ==
    CASE confidence = 50 -> 67
      [] confidence = 80 -> 128
      [] confidence = 95 -> 196
      [] OTHER -> 258

\* z * residual_std * np.sqrt(h), in ticks
Margin(confidence, std, h) == (NormPpf(confidence) * std * SqrtMilli(h)) \div 100000

(***************************************************************************)
(* Artifact caches.                                                        *)
(***************************************************************************)
Workers == 1..MaxWorkers

\* artifact files a ProphetXGBForecaster may be pointed at (self._path)
Paths == {"pathA", "pathB"}

\* Chronos2Config (model_id, device_map) pairs, written "model_id@device_map"
ChronosKeys == {"chronos-2@cpu", "chronos-2@cuda", "other@cpu", "other@cuda"}

\* config.model_id and config.device_map of a Chronos key
ModelIdOf(key) == IF key \in {"chronos-2@cpu", "chronos-2@cuda"}
                  THEN "amazon/chronos-2" ELSE "other"

DeviceOf(key) == IF key \in {"chronos-2@cpu", "other@cpu"} THEN "cpu" ELSE "cuda"

\* the key the three class attributes of Chronos2Forecaster record
RecordedKey(model_id, device) ==
    IF model_id = None \/ device = None THEN None
    ELSE CHOOSE k \in ChronosKeys : ModelIdOf(k) = model_id /\ DeviceOf(k) = device

CacheKeys == Paths \cup ChronosKeys

Idle == [pc |-> "idle", task |-> None, key |-> None, tmp |-> None, ret |-> None]

\* the resource a construction call returns, identified by the key it was built for
Chronos2Pipeline_from_pretrained(key) == key

joblib_load(path) == path

\* chronos2.py:56-60, the condition of _ensure_pipeline
NeedsPipeline(key) ==
    \/ PIPELINE = None
    \/ PIPELINE_MODEL_ID # ModelIdOf(key)
    \/ PIPELINE_DEVICE # DeviceOf(key)

\* a condition that never looks at the recorded path
NeedsArtifact_EmptyOnly(path) == artifact = None

\* prophet_xgb.py:57-60, the condition of _load_artifact
NeedsArtifact(path) ==
    \/ artifact = None
    \/ artifact_path # path

\* A pool worker picks up a request that builds a forecaster for `key`.
Submit(w) ==
    /\ UNCHANGED notCacheVars
    /\ worker[w].pc = "idle"
    /\ calls[w] < MaxCalls
    /\ \E key \in CacheKeys :
          worker' = [worker EXCEPT ![w] =
                        [pc |-> "check",
                         task |-> IF key \in Paths THEN "xgb" ELSE "chronos",
                         key |-> key, tmp |-> None, ret |-> None]]
    /\ calls' = [calls EXCEPT ![w] = @ + 1]
    /\ UNCHANGED <<artifact, artifact_path, PIPELINE, PIPELINE_MODEL_ID,
                   PIPELINE_DEVICE, built>>

\* The if-test of _ensure_pipeline / _load_artifact.
Check(w) ==
    /\ UNCHANGED notCacheVars
    /\ worker[w].pc = "check"
    /\ LET need == IF worker[w].task = "xgb"
                   THEN NeedsArtifact(worker[w].key)
                   ELSE NeedsPipeline(worker[w].key)
       IN worker' = [worker EXCEPT ![w].pc = IF need THEN "construct" ELSE "ret"]
    /\ UNCHANGED <<artifact, artifact_path, PIPELINE, PIPELINE_MODEL_ID,
                   PIPELINE_DEVICE, calls, built>>

\* The construction call: joblib.load(self._path) or
\* Chronos2Pipeline.from_pretrained(model_id, device_map=...).
Construct(w) ==
    /\ UNCHANGED notCacheVars
    /\ worker[w].pc = "construct"
    /\ LET key == worker[w].key
       IN /\ worker' = [worker EXCEPT
                ![w].pc = "store",
                ![w].tmp = IF worker[w].task = "xgb"
                           THEN joblib_load(key)
                           ELSE Chronos2Pipeline_from_pretrained(key)]
          /\ built' = [built EXCEPT ![key] = @ + 1]
    /\ UNCHANGED <<artifact, artifact_path, PIPELINE, PIPELINE_MODEL_ID,
                   PIPELINE_DEVICE, calls>>

\* The class attribute receives the constructed resource.
Store(w) ==
    /\ UNCHANGED notCacheVars
    /\ worker[w].pc = "store"
    /\ IF worker[w].task = "xgb"
       THEN /\ artifact' = worker[w].tmp
            /\ UNCHANGED PIPELINE
       ELSE /\ PIPELINE' = worker[w].tmp
            /\ UNCHANGED artifact
    /\ worker' = [worker EXCEPT ![w].pc = "store_key"]
    /\ UNCHANGED <<artifact_path, PIPELINE_MODEL_ID, PIPELINE_DEVICE, calls, built>>

\* A key that stops being the cached key starts over: a later construction
\* for it is a replacement, not a second construction.
Evict(old, new) ==
    [k \in CacheKeys |-> IF k = old /\ old # new THEN 0 ELSE built[k]]

\* The recorded key follows: _artifact_path, or _PIPELINE_MODEL_ID then
\* _PIPELINE_DEVICE.
StoreKey(w) ==
    /\ UNCHANGED notCacheVars
    /\ worker[w].pc = "store_key"
    /\ LET key == worker[w].key
       IN IF worker[w].task = "xgb"
          THEN /\ artifact_path' = key
               /\ built' = Evict(artifact_path, key)
               /\ UNCHANGED <<PIPELINE_MODEL_ID, PIPELINE_DEVICE>>
               /\ worker' = [worker EXCEPT ![w].pc = "ret"]
          ELSE /\ PIPELINE_MODEL_ID' = ModelIdOf(key)
               /\ built' = Evict(RecordedKey(PIPELINE_MODEL_ID, PIPELINE_DEVICE),
                                 RecordedKey(ModelIdOf(key), PIPELINE_DEVICE))
               /\ UNCHANGED <<artifact_path, PIPELINE_DEVICE>>
               /\ worker' = [worker EXCEPT ![w].pc = "store_device"]
    /\ UNCHANGED <<artifact, PIPELINE, calls>>

StoreDevice(w) ==
    /\ UNCHANGED notCacheVars
    /\ worker[w].pc = "store_device"
    /\ LET key == worker[w].key
       IN /\ PIPELINE_DEVICE' = DeviceOf(key)
          /\ built' = Evict(RecordedKey(PIPELINE_MODEL_ID, PIPELINE_DEVICE),
                            RecordedKey(PIPELINE_MODEL_ID, DeviceOf(key)))
    /\ worker' = [worker EXCEPT ![w].pc = "ret"]
    /\ UNCHANGED <<artifact, artifact_path, PIPELINE, PIPELINE_MODEL_ID, calls>>

\* `return ProphetXGBForecaster._artifact`, or the later use of
\* Chronos2Forecaster._PIPELINE by forecast().
Return(w) ==
    /\ UNCHANGED notCacheVars
    /\ worker[w].pc = "ret"
    /\ worker' = [worker EXCEPT
          ![w].pc = "idle",
          ![w].ret = IF worker[w].task = "xgb" THEN artifact ELSE PIPELINE]
    /\ UNCHANGED <<artifact, artifact_path, PIPELINE, PIPELINE_MODEL_ID,
                   PIPELINE_DEVICE, calls, built>>

(***************************************************************************)
(* Price series handed to fit.  A series is described by what the code     *)
(* looks at: its type, its index type, its length, NaNs, whether its       *)
(* values are numeric, whether its index is strictly increasing and the    *)
(* median gap between consecutive timestamps in whole days.                *)
(***************************************************************************)
Lens == 0..MaxLen

NotASeries ==
    [isSeries |-> FALSE, hasDatetimeIndex |-> FALSE, n |-> 0, hasNaN |-> FALSE,
     numeric |-> TRUE, ordered |-> TRUE, median_gap |-> 7]

\* a clean weekly series of n points
Clean(n) ==
    [isSeries |-> TRUE, hasDatetimeIndex |-> TRUE, n |-> n, hasNaN |-> FALSE,
     numeric |-> TRUE, ordered |-> TRUE, median_gap |-> 7]

\* the series a caller may pass: not a Series, a Series without a
\* DatetimeIndex, and for every length a clean series and the series with
\* one defect (a NaN, non-numeric values, sub-day spacing, unordered index)
\* where a series of that length can have it
SeriesInputs ==
    {NotASeries, [NotASeries EXCEPT !.isSeries = TRUE, !.n = MaxLen]}
    \cup {Clean(n) : n \in Lens}
    \cup {[Clean(n) EXCEPT !.hasNaN = TRUE] : n \in Lens \ {0}}
    \cup {[Clean(n) EXCEPT !.numeric = FALSE] : n \in Lens}
    \cup {[Clean(n) EXCEPT !.median_gap = 0] : n \in Lens \ {0, 1}}
    \cup {[Clean(n) EXCEPT !.ordered = FALSE, !.median_gap = -7] :
             n \in Lens \ {0, 1}}

\* prices.index[-1], as a day number
LastDate(n) == 1000 + 7 * n

\* BaseForecastor._validate_prices: the exception it raises, or None
validate_prices(prices, min_samples) ==
    IF ~prices.isSeries THEN "TypeError"
    ELSE IF ~prices.hasDatetimeIndex THEN "TypeError"
    ELSE IF prices.n < min_samples THEN "ValueError"
    ELSE IF prices.hasNaN THEN "ValueError"
    ELSE None

\* the min_samples argument each fit passes to _validate_prices
min_samples(kind, window) ==
    CASE kind = "lstm" -> window + 1
      [] kind \in {"prophet", "prophet_xgb"} -> 10
      [] OTHER -> 5

\* prices.sort_index()
sort_index(prices) ==
    [prices EXCEPT !.ordered = TRUE,
                   !.median_gap = IF @ < 0 THEN -@ ELSE @]

\* BaseForecastor._infer_freq_days
infer_freq_days(prices) == Max(prices.median_gap, 1)

(***************************************************************************)
(* Forecaster instances.                                                   *)
(***************************************************************************)
Kinds == {"base", "lstm", "prophet", "chronos2", "prophet_xgb"}

\* self._prices is None
NoPrices == 0

\* the attributes of a ProphetForecaster
ProphetNew(confidence) ==
    [confidence_level |-> confidence, is_fitted |-> FALSE, prices |-> NoPrices,
     freq_days |-> 7, model |-> None, ordered |-> TRUE]

\* __init__ of the five classes: the attributes of a fresh instance
NewInstance(kind, confidence, window) ==
    [kind |-> kind, confidence_level |-> confidence, window |-> window,
     is_fitted |-> FALSE, prices |-> NoPrices, freq_days |-> 7,
     ewm_value |-> 0, residual_std |-> 0, model |-> None,
     has_prophet |-> FALSE, prophet |-> ProphetNew(confidence),
     has_insample |-> FALSE, ordered |-> TRUE]

\* no instance exists (before construction, or the constructor raised)
Absent == NewInstance("absent", 95, 0)

\* a forecast result: four parallel sequences
ForecastResult(dates, point, lower, upper) ==
    [dates |-> dates, point_forecast |-> point, lower_bound |-> lower,
     upper_bound |-> upper]

NoResult == ForecastResult(<<>>, <<>>, <<>>, <<>>)

\* ---- SimpleForecaster (Baseline-Smoothing) --------------------------------

\* SimpleForecaster.fit; ewm and std are the statistics of the given prices
SimpleFit(i, prices, ewm, std) ==
    LET err == validate_prices(prices, 5)
        i1 == [i EXCEPT !.prices = prices.n, !.freq_days = infer_freq_days(prices)]
    IN IF err # None THEN [inst |-> i, raised |-> err]
       ELSE IF i.window < 1 THEN [inst |-> i1, raised |-> "ValueError"]
       ELSE IF ~prices.numeric THEN [inst |-> i1, raised |-> "DataError"]
       ELSE [inst |-> [i1 EXCEPT !.ewm_value = ewm, !.residual_std = std,
                                 !.is_fitted = TRUE],
             raised |-> None]

\* a guard that forgets the fitted flag
SimpleNotReady_PricesOnly(i) == i.prices = NoPrices

\* the guard of SimpleForecaster.forecast
SimpleNotReady(i) == ~i.is_fitted \/ i.prices = NoPrices

\* a loop that stops one step short: range(1, periods)
SimpleSteps_OneShort(periods) == 1..(periods - 1)

\* the steps the loop of SimpleForecaster.forecast runs: range(1, periods + 1)
SimpleSteps(periods) == 1..periods

\* the lower bound of step h
SimpleLower(i, h) ==
    Round4(i.ewm_value - Margin(i.confidence_level, i.residual_std, h))

\* the body of SimpleForecaster.forecast after the guard
SimpleForecast(i, periods) ==
    LET steps == SimpleSteps(periods)
        last_date == LastDate(i.prices)
    IN ForecastResult(
         [h \in steps |-> last_date + i.freq_days * h],
         [h \in steps |-> Round4(i.ewm_value)],
         [h \in steps |-> SimpleLower(i, h)],
         [h \in steps |->
            Round4(i.ewm_value + Margin(i.confidence_level, i.residual_std, h))])

\* ---- LSTMForecastor (Recurrent-Sequence) ----------------------------------

\* int(len(X) * (1 - self.test_size)) with the default test_size 0.2
LstmSplit(lenX) == (lenX * 8) \div 10

\* LSTMForecastor.fit; std is the validation residual spread of the training
LstmFit(i, prices, std) ==
    LET err == validate_prices(prices, i.window + 1)
        i1 == [i EXCEPT !.prices = prices.n, !.freq_days = infer_freq_days(prices)]
        lenX == prices.n - i.window
        i2 == [i1 EXCEPT !.model = "built"]
    IN IF err # None THEN [inst |-> i, raised |-> err]
       ELSE IF ~prices.numeric THEN [inst |-> i1, raised |-> "ValueError"]
       ELSE IF lenX <= 0 THEN [inst |-> i1, raised |-> "ValueError"]
       ELSE IF LstmSplit(lenX) = 0 THEN [inst |-> i2, raised |-> "ValueError"]
       ELSE [inst |-> [i2 EXCEPT !.model = "trained", !.residual_std = std,
                                 !.is_fitted = TRUE],
             raised |-> None]

\* the guard of LSTMForecastor.forecast
LstmNotReady(i) == ~i.is_fitted \/ i.model = None

\* the lower bound of a step: max(price - margin, 0.0), rounded
LstmLower(price, margin) == Round4(Max(price - margin, 0))

\* the body of LSTMForecastor.forecast after the guard; point is the
\* inverse-transformed output of the autoregressive loop, one price per step
LstmForecast(i, point) ==
    LET steps == 1..Len(point)
        last_date == LastDate(i.prices)
        margin(h) == Margin(i.confidence_level, i.residual_std, h)
    IN ForecastResult(
         [h \in steps |-> last_date + i.freq_days * h],
         [h \in steps |-> Round4(point[h])],
         [h \in steps |-> LstmLower(point[h], margin(h))],
         [h \in steps |-> Round4(point[h] + margin(h))])

\* ---- ProphetForecaster (Trend-Seasonality) --------------------------------

\* ProphetForecaster.fit on the attributes p of a ProphetForecaster;
\* lib_ok: Prophet(...).fit(df) returns normally
ProphetFit(p, prices, prophet_installed, lib_ok) ==
    LET err == validate_prices(prices, 10)
        p1 == [p EXCEPT !.prices = prices.n, !.freq_days = infer_freq_days(prices),
                        !.model = "built", !.ordered = prices.ordered]
    IN IF ~prophet_installed THEN [inst |-> p, raised |-> "ImportError"]
       ELSE IF err # None THEN [inst |-> p, raised |-> err]
       ELSE IF ~prices.numeric \/ ~lib_ok THEN [inst |-> p1, raised |-> "Exception"]
       ELSE [inst |-> [p1 EXCEPT !.is_fitted = TRUE], raised |-> None]

\* the guard of ProphetForecaster.forecast
ProphetNotReady(p) == ~p.is_fitted \/ p.model = None

\* the latest date of the stored series: that of its last row, or of its
\* first row when the series was stored in descending order
LatestDate(p) ==
    IF p.ordered THEN LastDate(p.prices) ELSE LastDate(p.prices) + 7 * (p.prices - 1)

\* what the library predicts for one future date: a date that is the
\* expected one (the library extends its sorted history) or (a library
\* quirk) not after the date of the last row, and a point estimate with
\* its native interval
FutureRow(p, h, quirk, est) ==
    [ds |-> IF quirk THEN LastDate(p.prices) - 7 * (h - 1)
            ELSE LatestDate(p) + p.freq_days * h,
     yhat |-> est[2], yhat_lower |-> est[1], yhat_upper |-> est[3]]

\* native (lower, point, upper) estimates, in ticks
Estimates == {<<-152, 53, 254>>, <<1234, 1234, 1234>>}

\* the rows the library can return for a horizon
FutureRows(p, periods) ==
    {[h \in 1..periods |-> FutureRow(p, h, c[h][1], c[h][2])] :
        c \in [1..periods -> BOOLEAN \X Estimates]}

\* self._model.predict(self._model.make_future_dataframe(periods)): the
\* history rows followed by the future rows
ProphetPrediction(p, future) ==
    [k \in 1..(p.prices + Len(future)) |->
        IF k <= p.prices
        THEN [ds |-> LastDate(p.prices) - 7 * (p.prices - k), yhat |-> 0,
              yhat_lower |-> 0, yhat_upper |-> 0]
        ELSE future[k - p.prices]]

\* DataFrame.tail(k)
tail(frame, k) == SubSeq(frame, Len(frame) - Min(k, Len(frame)) + 1, Len(frame))

\* the defensive pass over one returned date (prophet.py:124-130)
ProphetDate(p, i, ds) ==
    IF ds <= LastDate(p.prices) THEN LastDate(p.prices) + p.freq_days * i ELSE ds

\* the body of ProphetForecaster.forecast after the guard
ProphetForecast(p, periods, future) ==
    LET forecast_rows == tail(ProphetPrediction(p, future), periods)
        raw == [i \in 1..Len(forecast_rows) |->
                   ProphetDate(p, i, forecast_rows[i].ds)]
        dates == IF raw = <<>>
                 THEN [i \in 1..periods |-> LastDate(p.prices) + p.freq_days * i]
                 ELSE raw
    IN ForecastResult(
         dates,
         [i \in 1..Len(forecast_rows) |-> Round4(forecast_rows[i].yhat)],
         [i \in 1..Len(forecast_rows) |-> Round4(forecast_rows[i].yhat_lower)],
         [i \in 1..Len(forecast_rows) |-> Round4(forecast_rows[i].yhat_upper)])

\* ---- Chronos2Forecaster (Foundation-Zero-Shot) ----------------------------

\* Chronos2Forecaster.fit; i.window is config.context_length (0: None)
ChronosFit(i, prices) ==
    LET err == validate_prices(prices, 5)
    IN IF err # None THEN [inst |-> i, raised |-> err]
       ELSE [inst |-> [i EXCEPT
                         !.prices = IF i.window # 0 /\ prices.n > i.window
                                    THEN i.window ELSE prices.n,
                         !.is_fitted = TRUE],
             raised |-> None]

\* the guard of Chronos2Forecaster.forecast
ChronosNotReady(i) == ~i.is_fitted \/ i.prices = NoPrices

\* the frames predict_df can return for a horizon: one row per step with a
\* timestamp and quantile values; cols says which columns the frame has
ChronosFrames(i, periods) ==
    {[cols |-> cols,
      rows |-> [h \in 1..periods |->
                  [timestamp |-> LastDate(i.prices) + 7 * h,
                   low |-> q[h][1], mid |-> q[h][2], high |-> q[h][3]]]] :
        cols \in {"quantiles", "median_only", "none"},
        q \in [1..periods -> Estimates]}

\* the body of Chronos2Forecaster.forecast after the guard; "RuntimeError"
\* when the frame has no point column
ChronosForecast(i, pred_df) ==
    LET steps == 1..Len(pred_df.rows)
        point == [h \in steps |-> pred_df.rows[h].mid]
        low == IF pred_df.cols = "quantiles"
               THEN [h \in steps |-> pred_df.rows[h].low] ELSE point
        high == IF pred_df.cols = "quantiles"
                THEN [h \in steps |-> pred_df.rows[h].high] ELSE point
    IN ForecastResult(
         [h \in steps |-> pred_df.rows[h].timestamp],
         [h \in steps |-> Round4(point[h])],
         [h \in steps |-> Round4(low[h])],
         [h \in steps |-> Round4(high[h])])

\* ---- ProphetXGBForecaster (Hybrid-Residual-Correction) --------------------

\* the artifact file of the instance (self._path, the default path)
DefaultArtifactPath == "pathA"

\* ProphetXGBForecaster.fit; predict_ok: the in-sample predict() returns
ProphetXGBFit(i, prices, prophet_installed, lib_ok, predict_ok) ==
    LET err == validate_prices(prices, 10)
        sorted == sort_index(prices)
        i1 == [i EXCEPT !.prices = sorted.n, !.freq_days = infer_freq_days(sorted),
                        !.has_prophet = TRUE,
                        !.prophet = ProphetNew(i.confidence_level)]
        inner == ProphetFit(i1.prophet, sorted, prophet_installed, lib_ok)
        i2 == [i1 EXCEPT !.prophet = inner.inst]
    IN IF err # None THEN [inst |-> i, raised |-> err]
       ELSE IF inner.raised # None THEN [inst |-> i2, raised |-> inner.raised]
       ELSE IF ~predict_ok THEN [inst |-> i2, raised |-> "Exception"]
       ELSE [inst |-> [i2 EXCEPT !.has_insample = TRUE, !.is_fitted = TRUE],
             raised |-> None]

\* the guard of ProphetXGBForecaster.forecast
ProphetXGBNotReady(i) == ~i.is_fitted \/ ~i.has_prophet \/ i.prices = NoPrices

\* ProphetXGBForecaster._load_artifact: the exception it raises or None, the
\* artifact it returns and the class attributes it leaves
load_artifact(path, joblib_installed, file_exists) ==
    IF NeedsArtifact(path)
    THEN IF ~joblib_installed
         THEN [raised |-> "ImportError", art |-> None,
               artifact |-> artifact, artifact_path |-> artifact_path]
         ELSE IF ~file_exists
         THEN [raised |-> "FileNotFoundError", art |-> None,
               artifact |-> artifact, artifact_path |-> artifact_path]
         ELSE [raised |-> None, art |-> joblib_load(path),
               artifact |-> joblib_load(path), artifact_path |-> path]
    ELSE [raised |-> None, art |-> artifact,
          artifact |-> artifact, artifact_path |-> artifact_path]

\* residuals the correction model can predict, in ticks
Residuals == {-700, 0, 700}

\* a correction added to the point estimate of every step
CorrectFirst_EveryStep(point, predicted_residual) ==
    [h \in 1..Len(point) |-> Round4(point[h] + predicted_residual)]

\* point_forecast[0] = round(point_forecast[0] + predicted_residual, 4)
CorrectFirst(point, predicted_residual) ==
    [point EXCEPT ![1] = Round4(point[1] + predicted_residual)]

\* a forecast that applies the correction whatever _load_artifact did
ProphetXGBForecast_AlwaysCorrects(prophet_result, loaded, predicted_residual) ==
    [prophet_result EXCEPT
        !.point_forecast = CorrectFirst(prophet_result.point_forecast,
                                        predicted_residual)]

\* the body of ProphetXGBForecaster.forecast after the guard and after the
\* internal Prophet forecast; loaded is the outcome of _load_artifact
ProphetXGBForecast(prophet_result, loaded, predicted_residual) ==
    IF loaded.raised # None THEN prophet_result
    ELSE [prophet_result EXCEPT
            !.point_forecast = CorrectFirst(prophet_result.point_forecast,
                                            predicted_residual)]

\* the attributes of instance i once a forecast that applied the correction
\* has returned: lines 128-165 assign no attribute
AfterCorrectedForecast(i) == i

\* the "is_fitted" entry of get_model_info(), the same in the five classes
ReportsFitted(i) == i.is_fitted

\* ProphetXGBForecaster.get_model_info
ProphetXGB_get_model_info(i) ==
    [model_name |-> "ProphetXGBForecaster", version |-> "1.0",
     display_name |-> "Prophet + XGBoost", confidence_level |-> i.confidence_level,
     artifact_path |-> DefaultArtifactPath, is_fitted |-> i.is_fitted]

CacheEmpty ==
    /\ artifact = None
    /\ artifact_path = None
    /\ PIPELINE = None
    /\ PIPELINE_MODEL_ID = None
    /\ PIPELINE_DEVICE = None

PoolIdle ==
    /\ worker = [w \in Workers |-> Idle]
    /\ calls = [w \in Workers |-> 0]
    /\ built = [k \in CacheKeys |-> 0]

CacheNext ==
    \E w \in Workers :
        \/ Submit(w)
        \/ Check(w)
        \/ Construct(w)
        \/ Store(w)
        \/ StoreKey(w)
        \/ StoreDevice(w)
        \/ Return(w)

(***************************************************************************)
(* One forecaster instance: construction, fit and forecast calls.          *)
(***************************************************************************)
\* deployments: every optional package and the artifact file present, or
\* exactly one of them missing
FullEnv ==
    [tensorflow |-> TRUE, prophet |-> TRUE, chronos |-> TRUE, joblib |-> TRUE,
     artifact_file |-> TRUE]

Envs ==
    {FullEnv, [FullEnv EXCEPT !.tensorflow = FALSE], [FullEnv EXCEPT !.prophet = FALSE],
     [FullEnv EXCEPT !.chronos = FALSE], [FullEnv EXCEPT !.joblib = FALSE],
     [FullEnv EXCEPT !.artifact_file = FALSE]}

\* span / lookback_window / context_length a caller may construct with
WindowsOf(kind) ==
    CASE kind = "base" -> {0, 4}
      [] kind = "lstm" -> {3, 6}
      [] kind = "chronos2" -> {0, 6}
      [] OTHER -> {0}

\* statistics a fit can produce, in ticks
EwmValues == {-25, 4, 1005}

StdValues == {0, 3, 40}

\* prices the recurrent network can predict, in ticks
LstmPoints == {-25, 3, 120}

Horizons == 1..MaxHorizon

\* the (model_id, device_map) of the default Chronos2Config
DefaultChronosKey == "chronos-2@cpu"

\* A call frame: the operation, the periods of a forecast, how the call
\* ended, and two locals of
\* ProphetXGBForecaster.forecast: prophet_result (inner) and whether the
\* except branch of lines 118-126 was taken (degraded).
NoCall ==
    [op |-> "none", raised |-> None, returned |-> FALSE, periods |-> 0,
     result |-> NoResult, inner |-> NoResult, degraded |-> FALSE]

Raised(op, exc, periods) ==
    [NoCall EXCEPT !.op = op, !.raised = exc, !.periods = periods]

Returned(op, periods, result) ==
    [NoCall EXCEPT !.op = op, !.returned = TRUE, !.periods = periods,
                   !.result = result]

\* the ProphetForecaster attributes of an instance of kind "prophet"
AsProphet(i) ==
    [confidence_level |-> i.confidence_level, is_fitted |-> i.is_fitted,
     prices |-> i.prices, freq_days |-> i.freq_days, model |-> i.model,
     ordered |-> i.ordered]

WithProphet(i, p) ==
    [i EXCEPT !.is_fitted = p.is_fitted, !.prices = p.prices,
              !.freq_days = p.freq_days, !.model = p.model,
              !.ordered = p.ordered]

\* the exception a constructor raises, or None
InitRaises(kind) ==
    IF kind = "lstm" /\ ~env.tensorflow THEN "ImportError"
    ELSE IF kind = "chronos2" /\ ~env.chronos THEN "ImportError"
    ELSE None

\* __init__; Chronos2Forecaster.__init__ ends with _ensure_pipeline()
Instantiate ==
    /\ inst.kind = "absent"
    /\ call.op = "none"
    /\ \E kind \in Kinds, confidence \in Confidences :
         \E window \in WindowsOf(kind) :
           /\ inst' = IF InitRaises(kind) = None
                      THEN NewInstance(kind, confidence, window) ELSE inst
           /\ call' = IF InitRaises(kind) = None
                      THEN Returned("init", 0, NoResult)
                      ELSE Raised("init", InitRaises(kind), 0)
           /\ IF kind = "chronos2" /\ InitRaises(kind) = None
                 /\ NeedsPipeline(DefaultChronosKey)
              THEN /\ PIPELINE' = Chronos2Pipeline_from_pretrained(DefaultChronosKey)
                   /\ PIPELINE_MODEL_ID' = ModelIdOf(DefaultChronosKey)
                   /\ PIPELINE_DEVICE' = DeviceOf(DefaultChronosKey)
              ELSE UNCHANGED <<PIPELINE, PIPELINE_MODEL_ID, PIPELINE_DEVICE>>
    /\ UNCHANGED <<env, fitCompleted, ops, artifact, artifact_path, worker, calls,
                   built, evVars, auxVars>>

\* the frame of a fit call on the series `prices` whose outcome is r
FitCall(r, prices) ==
    /\ inst' = r.inst
    /\ call' = IF r.raised = None THEN Returned("fit", 0, NoResult)
               ELSE Raised("fit", r.raised, 0)
    /\ fitCompleted' = (fitCompleted \/ r.raised = None)
    /\ ops' = ops + 1
    /\ given' = IF given.observed THEN [given EXCEPT !.series = prices] ELSE given
    /\ UNCHANGED <<env, cacheVars, evVars, pairs, agg, http, extVars>>

FitBase ==
    /\ inst.kind = "base"
    /\ ops < MaxOps
    /\ \E prices \in SeriesInputs :
         IF SimpleFit(inst, prices, 0, 0).raised # None
         THEN FitCall(SimpleFit(inst, prices, 0, 0), prices)
         ELSE \E ewm \in EwmValues, std \in StdValues :
                FitCall(SimpleFit(inst, prices, ewm, std), prices)

FitLstm ==
    /\ inst.kind = "lstm"
    /\ ops < MaxOps
    /\ \E prices \in SeriesInputs :
         IF LstmFit(inst, prices, 0).raised # None
         THEN FitCall(LstmFit(inst, prices, 0), prices)
         ELSE \E std \in StdValues : FitCall(LstmFit(inst, prices, std), prices)

FitProphet ==
    /\ inst.kind = "prophet"
    /\ ops < MaxOps
    /\ \E prices \in SeriesInputs, lib_ok \in BOOLEAN :
         LET r == ProphetFit(AsProphet(inst), prices, env.prophet, lib_ok)
         IN FitCall([inst |-> WithProphet(inst, r.inst), raised |-> r.raised], prices)

FitChronos ==
    /\ inst.kind = "chronos2"
    /\ ops < MaxOps
    /\ \E prices \in SeriesInputs : FitCall(ChronosFit(inst, prices), prices)

FitProphetXGB ==
    /\ inst.kind = "prophet_xgb"
    /\ ops < MaxOps
    /\ \E prices \in SeriesInputs, lib_ok \in BOOLEAN, predict_ok \in BOOLEAN :
         FitCall(ProphetXGBFit(inst, prices, env.prophet, lib_ok, predict_ok), prices)

\* the frame of a forecast call that ends as c: forecast assigns no attribute
ForecastCall(c) ==
    /\ call' = c
    /\ ops' = ops + 1
    /\ UNCHANGED <<env, inst, fitCompleted, PIPELINE, PIPELINE_MODEL_ID,
                   PIPELINE_DEVICE, worker, calls, built, evVars, auxVars>>

ForecastBase ==
    /\ inst.kind = "base"
    /\ ops < MaxOps
    /\ \E periods \in Horizons :
         ForecastCall(IF SimpleNotReady(inst)
                      THEN Raised("forecast", "ValueError", periods)
                      ELSE Returned("forecast", periods, SimpleForecast(inst, periods)))
    /\ UNCHANGED <<artifact, artifact_path>>

ForecastLstm ==
    /\ inst.kind = "lstm"
    /\ ops < MaxOps
    /\ \E periods \in Horizons :
         \E point \in [1..periods -> LstmPoints] :
           ForecastCall(IF LstmNotReady(inst)
                        THEN Raised("forecast", "ValueError", periods)
                        ELSE Returned("forecast", periods, LstmForecast(inst, point)))
    /\ UNCHANGED <<artifact, artifact_path>>

ForecastProphet ==
    /\ inst.kind = "prophet"
    /\ ops < MaxOps
    /\ \E periods \in Horizons :
         \E future \in FutureRows(AsProphet(inst), periods) :
           ForecastCall(IF ProphetNotReady(AsProphet(inst))
                        THEN Raised("forecast", "ValueError", periods)
                        ELSE Returned("forecast", periods,
                                      ProphetForecast(AsProphet(inst), periods, future)))
    /\ UNCHANGED <<artifact, artifact_path>>

ForecastChronos ==
    /\ inst.kind = "chronos2"
    /\ ops < MaxOps
    /\ \E periods \in Horizons :
         \E pred_df \in ChronosFrames(inst, periods) :
           ForecastCall(IF ChronosNotReady(inst)
                        THEN Raised("forecast", "ValueError", periods)
                        ELSE IF pred_df.cols = "none"
                        THEN Raised("forecast", "RuntimeError", periods)
                        ELSE Returned("forecast", periods,
                                      ChronosForecast(inst, pred_df)))
    /\ UNCHANGED <<artifact, artifact_path>>

ForecastProphetXGB ==
    /\ inst.kind = "prophet_xgb"
    /\ ops < MaxOps
    /\ \E periods \in Horizons, predicted_residual \in Residuals :
         \E future \in FutureRows(inst.prophet, periods) :
           IF ProphetXGBNotReady(inst) \/ ProphetNotReady(inst.prophet)
           THEN /\ ForecastCall(Raised("forecast", "ValueError", periods))
                /\ UNCHANGED <<artifact, artifact_path>>
           ELSE LET loaded == load_artifact(DefaultArtifactPath, env.joblib,
                                            env.artifact_file)
                    prophet_result == ProphetForecast(inst.prophet, periods, future)
                IN /\ ForecastCall(
                        [Returned("forecast", periods,
                                  ProphetXGBForecast(prophet_result, loaded,
                                                     predicted_residual))
                           EXCEPT !.inner = prophet_result,
                                  !.degraded = (loaded.raised # None)])
                   /\ artifact' = loaded.artifact
                   /\ artifact_path' = loaded.artifact_path

(***************************************************************************)
(* Error aggregator (metrics.py, _mae_rmse_mape).                          *)
(***************************************************************************)
\* Actual and predicted values are whole numbers; mae and rmse are counted
\* in units of 1e-4 and mape in units of 1e-4 percent, the fourth decimal
\* that round(x, 4) keeps.
Actuals == {0, 1, 2}

Predictions == {1, 2}

PairLists ==
    UNION {[1..n -> Actuals \X Predictions] : n \in 1..MaxPairs}

Abs(x) == IF x < 0 THEN -x ELSE x

\* round(num / den, 0) for num >= 0, ties to the even integer
RoundDiv(num, den) ==
    LET q == num \div den
        r == num % den
    IN IF 2 * r < den THEN q
       ELSE IF 2 * r > den THEN q + 1
       ELSE IF q % 2 = 0 THEN q ELSE q + 1

\* round(sqrt(x), 0)
RoundSqrt(x) ==
    LET r == SqrtSearch(x, 0, 46340)
    IN IF x > r * r + r THEN r + 1 ELSE r

RECURSIVE SumOver(_, _)
\* the sum of f[i] over the indices of a sequence f
SumOver(f, n) == IF n = 0 THEN 0 ELSE f[n] + SumOver(f, n - 1)

\* np.where(mask, np.abs((actual - predicted) / actual), 0), times 1e6
MaskedRatios(ps) ==
    [i \in 1..Len(ps) |->
        IF ps[i][1] # 0 THEN (Abs(ps[i][1] - ps[i][2]) * 1000000) \div Abs(ps[i][1])
        ELSE 0]

\* np.mean(...) divides by the length of the whole array
MapeDivisor(ps) == Len(ps)

\* _mae_rmse_mape: the returned dict
mae_rmse_mape(ps) ==
    LET n == Len(ps)
        abs_err == [i \in 1..n |-> Abs(ps[i][1] - ps[i][2])]
        sq_err == [i \in 1..n |-> (ps[i][1] - ps[i][2]) * (ps[i][1] - ps[i][2])]
    IN [returned |-> TRUE, raised |-> None,
        mae |-> RoundDiv(SumOver(abs_err, n) * 10000, n),
        rmse |-> RoundSqrt((SumOver(sq_err, n) * 100000000) \div n),
        mape |-> RoundDiv(SumOver(MaskedRatios(ps), n), MapeDivisor(ps))]

\* nothing returned yet
NoMetrics == [returned |-> FALSE, raised |-> None, mae |-> 0, rmse |-> 0, mape |-> 0]

\* _mae_rmse_mape(actual, predicted) runs
Aggregate ==
    /\ ~agg.returned
    /\ pairs # <<>>
    /\ agg' = mae_rmse_mape(pairs)
    /\ UNCHANGED <<pairs, http, given, extVars, cacheVars, fcVars, evVars>>

(***************************************************************************)
(* Forecast endpoints (forecast.py).                                       *)
(***************************************************************************)
Routes == {"base", "lstm", "prophet"}

\* what pd.to_datetime makes of req.dates: ISO dates give a DatetimeIndex,
\* dates with mixed UTC offsets give an object Index or (newer pandas) a
\* ValueError, a string that is no date gives a ValueError
DateKinds == {"iso", "mixed_offsets", "unparseable"}

\* The request object a worker receives.  has_series: the schemas are the
\* ones the workers read and build (a request with prices, dates and
\* ticker, a response made of ticker, model_info and the result); the
\* ForecastRequest of schemas/forecast.py has no such attribute, and a
\* worker given one ends at its first statement with AttributeError.
HttpRequests ==
    {r \in [has_series : BOOLEAN, n_prices : Lens, n_dates : Lens, dates : DateKinds,
            lookback_window : {5, 20}, confidence_level : {95}] :
        /\ r.dates = "unparseable" => r.n_dates >= 1
        /\ r.dates = "mixed_offsets" => r.n_dates >= 2}

NoHttpRequest ==
    [has_series |-> FALSE, n_prices |-> 0, n_dates |-> 0, dates |-> "iso",
     lookback_window |-> 20, confidence_level |-> 95]

\* pc: "idle", "queued" (handed to the executor), "worked" (the worker
\* ended), "responded".  raised: the exception the worker ended with or
\* None; stage: the statement of the worker that raised it.
HttpIdle ==
    [pc |-> "idle", route |-> "base", request |-> NoHttpRequest, raised |-> None,
     stage |-> "none", status |-> 0]

\* _build_series: the exception raised or None, and the series built;
\* sort_index leaves the index ordered
build_series(r, mixed_raises) ==
    LET fail(exc) == [raised |-> exc, series |-> NotASeries]
    IN IF ~r.has_series THEN fail("AttributeError")
       ELSE IF r.n_prices # r.n_dates THEN fail("ValueError")
       ELSE IF r.dates = "unparseable" THEN fail("ValueError")
       ELSE IF r.dates = "mixed_offsets" /\ mixed_raises THEN fail("ValueError")
       ELSE [raised |-> None,
             series |-> [Clean(r.n_prices) EXCEPT
                           !.hasDatetimeIndex = (r.dates = "iso")]]

\* _run_base, _run_lstm, _run_prophet: the exception the worker ends with
\* (None: a ForecastResponse is returned) and the statement that raised it.
\* lib: the library's fit and forecast return normally.
run_worker(route, r, mixed_raises, lib) ==
    LET b == build_series(r, mixed_raises)
        n == b.series.n
        min_needed == min_samples(route, r.lookback_window)
        fitted ==
            CASE route = "base" ->
                   SimpleFit(NewInstance("base", r.confidence_level,
                                         Min(r.lookback_window, n - 1)),
                             b.series, 1005, 40)
              [] route = "lstm" ->
                   LstmFit(NewInstance("lstm", r.confidence_level, r.lookback_window),
                           b.series, 40)
              [] OTHER ->
                   ProphetFit(ProphetNew(r.confidence_level), b.series, env.prophet,
                              lib)
        end(exc, stage) == [raised |-> exc, stage |-> stage]
    IN IF b.raised # None THEN end(b.raised, "build")
       ELSE IF InitRaises(route) # None THEN end(InitRaises(route), "init")
       ELSE IF route = "prophet" /\ ~env.prophet THEN end("ImportError", "import")
       ELSE IF validate_prices(b.series, min_needed) # None
            THEN end(validate_prices(b.series, min_needed), "validate")
       ELSE IF fitted.raised # None THEN end(fitted.raised, "fit")
       ELSE IF ~lib THEN end("Exception", "forecast")
       ELSE end(None, "none")

\* handlers without the `except ImportError` clause
StatusOf_NoImportErrorClause(route, exc) ==
    IF exc = None THEN 200
    ELSE IF exc = "ValueError" THEN 422
    ELSE 500

\* the except clauses of base_forecast, lstm_forecast and prophet_forecast
StatusOf(route, exc) ==
    IF exc = None THEN 200
    ELSE IF route \in {"lstm", "prophet"} /\ exc = "ImportError" THEN 503
    ELSE IF exc = "ValueError" THEN 422
    ELSE 500

\* a request arrives at one of the three routes and its worker is handed
\* to the executor
Receive ==
    /\ http.pc = "idle"
    /\ \E route \in Routes, r \in HttpRequests :
         http' = [HttpIdle EXCEPT !.pc = "queued", !.route = route, !.request = r]
    /\ UNCHANGED <<pairs, agg, given, extVars, cacheVars, fcVars, evVars>>

\* the worker runs in a pool thread
RunWorker ==
    /\ http.pc = "queued"
    /\ \E mixed_raises \in BOOLEAN, lib \in BOOLEAN :
         LET out == run_worker(http.route, http.request, mixed_raises, lib)
         IN http' = [http EXCEPT !.pc = "worked", !.raised = out.raised,
                                 !.stage = out.stage]
    /\ UNCHANGED <<pairs, agg, given, extVars, cacheVars, fcVars, evVars>>

\* the handler resumes after the await and answers
Respond ==
    /\ http.pc = "worked"
    /\ http' = [http EXCEPT !.pc = "responded",
                            !.status = StatusOf(http.route, http.raised)]
    /\ UNCHANGED <<pairs, agg, given, extVars, cacheVars, fcVars, evVars>>

(***************************************************************************)
(* Asset deletion (assets.py, delete_asset).                               *)
(***************************************************************************)
\* the rows the assets table can hold: sync stores symbols in upper case
AssetRows ==
    {[id |-> 1, symbol |-> "AAPL"], [id |-> 2, symbol |-> "MSFT"],
     [id |-> 3, symbol |-> "BTC-USD"]}

\* the {symbol} a client can put in the path
PathSymbols == {"AAPL", "aapl", "MSFT", "msft", "BTC-USD", "btc-usd", "UNKNOWN"}

\* str.upper
upper(symbol) ==
    CASE symbol = "aapl" -> "AAPL"
      [] symbol = "msft" -> "MSFT"
      [] symbol = "btc-usd" -> "BTC-USD"
      [] OTHER -> symbol

\* no row id
NoId == 0

NoQueries == <<>>

RestIdle ==
    [pc |-> "idle", path |-> None, symbol |-> None, asset_id |-> NoId,
     status |-> 0, body |-> None, served |-> 0]

\* db.table("assets").select("id").eq("symbol", symbol).limit(1).execute().data
select_id(rows, symbol) == {r.id : r \in {x \in rows : x.symbol = symbol}}

\* a test that lets every lookup through
NotFound_Never(data) == FALSE

\* `if not asset_res.data`
NotFound(data) == data = {}

\* the rows left by db.table("assets").delete().eq("id", asset_id).execute()
delete_by_id(rows, asset_id) == {r \in rows : r.id # asset_id}

\* a DELETE request for a path symbol reaches the handler, which puts the
\* symbol in upper case
DeleteRequest ==
    /\ rest.pc \in {"idle", "responded"}
    /\ rest.served < MaxCalls
    /\ \E symbol \in PathSymbols :
         rest' = [RestIdle EXCEPT !.pc = "lookup", !.path = symbol,
                                  !.symbol = upper(symbol),
                                  !.served = rest.served]
    /\ db' = [db EXCEPT !.queries = NoQueries]
    /\ UNCHANGED <<pairs, agg, http, given, facVars, cacheVars, fcVars, evVars>>

\* the select query; an empty result ends the request with 404
Lookup ==
    /\ rest.pc = "lookup"
    /\ LET data == select_id(db.rows, rest.symbol)
       IN /\ db' = [db EXCEPT !.queries =
                        Append(@, [op |-> "select", symbol |-> rest.symbol,
                                   id |-> NoId])]
          /\ rest' = IF NotFound(data)
                     THEN [rest EXCEPT !.pc = "responded", !.status = 404,
                                       !.body = rest.symbol, !.served = @ + 1]
                     ELSE [rest EXCEPT !.pc = "delete",
                                       !.asset_id = IF data = {} THEN NoId
                                                    ELSE CHOOSE id \in data : TRUE]
    /\ UNCHANGED <<pairs, agg, http, given, facVars, cacheVars, fcVars, evVars>>

\* the delete query and Response(status_code=204)
DeleteRow ==
    /\ rest.pc = "delete"
    /\ db' = [rows |-> delete_by_id(db.rows, rest.asset_id),
              queries |-> Append(db.queries,
                                 [op |-> "delete", symbol |-> None,
                                  id |-> rest.asset_id])]
    /\ rest' = [rest EXCEPT !.pc = "responded", !.status = 204, !.body = "",
                            !.served = @ + 1]
    /\ UNCHANGED <<pairs, agg, http, given, facVars, cacheVars, fcVars, evVars>>

\* no asset request is under way and the table is empty
NoAssetRequest == db = [rows |-> {}, queries |-> NoQueries] /\ rest = RestIdle

(***************************************************************************)
(* ForecastingFactory (data_engine/forecasting/factory.py).                *)
(***************************************************************************)
\* the names a caller can register or ask for
ModelNames == {"lstm", "LSTM", "custom", "Custom", "arima"}

\* the classes a caller can hand to register_model
ModelClasses == {"LSTMForecastor", "CustomForecaster", "ArimaForecaster", "Scaler"}

\* issubclass(model_class, BaseForecastor)
IsForecastor(model_class) ==
    model_class \in {"LSTMForecastor", "CustomForecaster", "ArimaForecaster"}

\* str.lower
lower(name) ==
    CASE name = "LSTM" -> "lstm"
      [] name = "Custom" -> "custom"
      [] OTHER -> name

\* the registry of the class body: {"lstm": LSTMForecastor}
InitialModels == [n \in ModelNames |-> IF n = "lstm" THEN "LSTMForecastor" ELSE None]

\* `name in cls._models`
Registered(registry, name) == registry[name] # None

NoFactoryCall ==
    [op |-> "none", name |-> None, model_class |-> None, raised |-> None,
     message |-> None, instance |-> None]

\* model_type = model_type.lower()
LookupKey(model_type) == lower(model_type)

\* ForecastingFactory.create_forecaster; accepts: model_class(**kwargs)
\* raises no TypeError
create_forecaster(registry, model_type, accepts) ==
    LET key == LookupKey(model_type)
    IN IF ~Registered(registry, key)
       THEN [raised |-> "ValueError", message |-> "Unknown model type",
             instance |-> None]
       ELSE IF ~accepts
       THEN [raised |-> "ValueError", message |-> "Invalid parameters",
             instance |-> None]
       ELSE [raised |-> None, message |-> None, instance |-> registry[key]]

\* ForecastingFactory.register_model: the exception it raises and the
\* registry it leaves
register_model(registry, name, model_class) ==
    IF ~IsForecastor(model_class)
    THEN [raised |-> "TypeError", registry |-> registry]
    ELSE IF Registered(registry, name)
    THEN [raised |-> "ValueError", registry |-> registry]
    ELSE [raised |-> None, registry |-> [registry EXCEPT ![name] = model_class]]

RegisterModel ==
    /\ \E name \in ModelNames, model_class \in ModelClasses :
         LET r == register_model(models, name, model_class)
         IN /\ models' = r.registry
            /\ fcall' = [NoFactoryCall EXCEPT !.op = "register", !.name = name,
                                              !.model_class = model_class,
                                              !.raised = r.raised]
    /\ UNCHANGED <<pairs, agg, http, given, restVars, cacheVars, fcVars, evVars>>

CreateForecaster ==
    /\ \E model_type \in ModelNames, accepts \in BOOLEAN :
         LET r == create_forecaster(models, model_type, accepts)
         IN fcall' = [NoFactoryCall EXCEPT !.op = "create", !.name = model_type,
                                           !.raised = r.raised,
                                           !.message = r.message,
                                           !.instance = r.instance]
    /\ UNCHANGED <<models, pairs, agg, http, given, restVars, cacheVars, fcVars,
                   evVars>>

\* the registry is that of the class body and the factory was not called
FactoryUntouched == models = InitialModels /\ fcall = NoFactoryCall

(***************************************************************************)
(* Walk-forward evaluator and bounds reporter (metrics.py).                *)
(***************************************************************************)
Intervals == {"1wk", "1mo"}

\* last_n_weeks: the request schema admits 5 and more
Windows == 5..MaxWindow

\* len(prices) - last_n_weeks: around the two minimum training sizes
Offsets == {23, 24, 40, 51, 52, 66}

\* lookback_window: the request schema admits 5..60
Lookbacks == {5, 20, 60}

ModelLists == {<<"base", "prophet">>, <<"prophet_xgb", "base">>, <<"lstm", "base">>}

Requests ==
    {[interval |-> i, last_n_weeks |-> w, n |-> w + d, lookback_window |-> l,
      models |-> ms, confidence_level |-> 95] :
        i \in Intervals, w \in Windows, d \in Offsets, l \in Lookbacks,
        ms \in ModelLists}

\* the index of the evaluated series: one observation per week or month,
\* with a day of slack every tenth observation
Timestamp(interval, pos) ==
    pos * (IF interval = "1wk" THEN 7 ELSE 30) + pos \div 10

\* a threshold that ignores the cadence
min_train_CadenceBlind(interval) == MIN_TRAIN_MONTHLY

\* metrics.py:186
min_train(interval) == IF interval = "1wk" THEN MIN_TRAIN_WEEKLY ELSE MIN_TRAIN_MONTHLY

\* metrics.py:67, the length test of _run_walk_forward_one_step
TooShortForWalk(n, last_n) ==
    n < last_n + (IF last_n <= 52 THEN MIN_TRAIN_WEEKLY ELSE 32)

\* metrics.py:74
TrainEnd(n, last_n, k) == n - last_n + k

\* metrics.py:75, the length test of one step
TooShortForStep(train_end, lookback_window) == train_end < lookback_window + 5

\* a training slice that runs one position too far: prices.iloc[:train_end + 1]
TrainLen_Inclusive(train_end) == train_end + 1

\* len(prices.iloc[:train_end])
TrainLen(train_end) == train_end

\* an except clause that lets through what is not a data error
Caught_DataErrorsOnly(exc) == exc \in {"TypeError", "KeyError", "IndexError", "ValueError"}

\* `except Exception`: every exception a step raises is caught
Caught(exc) == TRUE

LibraryBehaviours == {"ok", "fit_fails", "forecast_fails"}

\* _pool_common.backtest_one_step: the (training length, test position)
\* pairs of the rows it returns when every fit and forecast succeeds
backtest_one_step(n, test_size, min_train_size) ==
    {[train_len |-> TrainLen(i), test |-> i] :
        i \in {j \in (n - test_size)..(n - 1) : TrainLen(j) >= min_train_size}}

\* the future rows of a Prophet model fit inside the evaluator
EvalFuture(p, periods) ==
    [h \in 1..periods |-> FutureRow(p, h, FALSE, <<-152, 53, 254>>)]

\* construct, fit and forecast one model on `series` (the try blocks of
\* _run_walk_forward_one_step and _run_bounds_forecast): the exception
\* raised or None, the forecast, whether a forecaster was constructed, and
\* the artifact cache afterwards.  lib says how the external library
\* behaves: "ok", or an internal error inside fit or inside forecast.  A
\* name other than the three imported classes is "lstm", whose class
\* metrics.py does not import.
RunModel(model_name, series, lookback_window, confidence, periods, lib) ==
    LET keep == [artifact |-> artifact, artifact_path |-> artifact_path]
        fail(exc, made) ==
            [raised |-> exc, result |-> NoResult, made |-> made, cache |-> keep]
        done(result, cache) ==
            [raised |-> None, result |-> result, made |-> TRUE, cache |-> cache]
    IN CASE model_name = "base" ->
              LET r == SimpleFit(NewInstance("base", confidence,
                                             Min(lookback_window, series.n - 1)),
                                 series, 1005, 40)
              IN IF r.raised # None THEN fail(r.raised, TRUE)
                 ELSE done(SimpleForecast(r.inst, periods), keep)
         [] model_name = "prophet" ->
              LET r == ProphetFit(ProphetNew(confidence), series, env.prophet,
                                  lib # "fit_fails")
              IN IF r.raised # None THEN fail(r.raised, TRUE)
                 ELSE IF lib = "forecast_fails" THEN fail("Exception", TRUE)
                 ELSE done(ProphetForecast(r.inst, periods,
                                           EvalFuture(r.inst, periods)), keep)
         [] model_name = "prophet_xgb" ->
              LET r == ProphetXGBFit(NewInstance("prophet_xgb", confidence, 0),
                                     series, env.prophet, lib # "fit_fails", TRUE)
                  loaded == load_artifact(DefaultArtifactPath, env.joblib,
                                          env.artifact_file)
              IN IF r.raised # None THEN fail(r.raised, TRUE)
                 ELSE IF lib = "forecast_fails" THEN fail("Exception", TRUE)
                 ELSE done(ProphetXGBForecast(
                               ProphetForecast(r.inst.prophet, periods,
                                               EvalFuture(r.inst.prophet, periods)),
                               loaded, 700),
                           [artifact |-> loaded.artifact,
                            artifact_path |-> loaded.artifact_path])
         [] OTHER -> fail("NameError", FALSE)

\* metrics.py:208-212, with bounds_horizon_periods left unset
BoundsHorizon(interval) == IF interval = "1wk" THEN 12 ELSE 4

EvalStart == [pc |-> "start", m |-> 0, k |-> 0, logged |-> None, raised |-> None]

NoResponse == [returned |-> FALSE, error |-> FALSE, need |-> 0, have |-> 0]

\* metrics.py:187-193: the series is too short, the evaluator refuses
Refuse ==
    /\ ev.pc = "start"
    /\ req.n < req.last_n_weeks + min_train(req.interval)
    /\ ev' = [ev EXCEPT !.pc = "done"]
    /\ response' = [returned |-> TRUE, error |-> TRUE,
                    need |-> req.last_n_weeks + min_train(req.interval),
                    have |-> req.n]
    /\ UNCHANGED <<req, records, metrics_list, bounds_list, attempted, succeeded, constructed,
                   cacheVars, fcVars, auxVars>>

\* metrics.py:195-196: the series is long enough, the first model is taken
Accept ==
    /\ ev.pc = "start"
    /\ ~(req.n < req.last_n_weeks + min_train(req.interval))
    /\ ev' = [ev EXCEPT !.pc = "enter", !.m = 1]
    /\ UNCHANGED <<req, records, metrics_list, bounds_list, response, attempted, succeeded,
                   constructed, cacheVars, fcVars, auxVars>>

\* after the walk-forward of model m: the next model, or the bounds loop
AfterWalk(m) ==
    IF m < Len(req.models)
    THEN [ev EXCEPT !.pc = "enter", !.m = m + 1, !.k = 0, !.logged = None]
    ELSE [ev EXCEPT !.pc = "bounds", !.m = 1, !.k = 0, !.logged = None]

\* metrics.py:66-71: _run_walk_forward_one_step begins for models[m]
EnterModel ==
    /\ ev.pc = "enter"
    /\ ev' = IF TooShortForWalk(req.n, req.last_n_weeks)
             THEN AfterWalk(ev.m)
             ELSE [ev EXCEPT !.pc = "walk", !.k = 0, !.logged = None]
    /\ records' = <<>>
    /\ UNCHANGED <<req, metrics_list, bounds_list, response, attempted, succeeded, constructed,
                   cacheVars, fcVars, auxVars>>

\* metrics.py:75-76: a step whose training prefix is shorter than
\* lookback_window + 5 is passed over
SkipStep ==
    /\ ev.pc = "walk"
    /\ ev.k < req.last_n_weeks
    /\ TooShortForStep(TrainEnd(req.n, req.last_n_weeks, ev.k), req.lookback_window)
    /\ ev' = [ev EXCEPT !.k = @ + 1, !.logged = None]
    /\ UNCHANGED <<req, records, metrics_list, bounds_list, response, attempted, succeeded,
                   constructed, cacheVars, fcVars, auxVars>>

\* metrics.py:77-107: one walk-forward step
WalkStep ==
    /\ ev.pc = "walk"
    /\ ev.k < req.last_n_weeks
    /\ LET train_end == TrainEnd(req.n, req.last_n_weeks, ev.k)
       IN /\ ~TooShortForStep(train_end, req.lookback_window)
          /\ \E lib \in LibraryBehaviours :
               LET out == RunModel(req.models[ev.m], Clean(TrainLen(train_end)),
                                   req.lookback_window, req.confidence_level, 1,
                                   lib)
               IN /\ attempted' = attempted \cup {<<ev.m, ev.k>>}
                  /\ succeeded' = IF out.raised = None
                                   THEN [succeeded EXCEPT ![ev.m] = @ + 1]
                                   ELSE succeeded
                  /\ constructed' = constructed + (IF out.made THEN 1 ELSE 0)
                  /\ artifact' = out.cache.artifact
                  /\ artifact_path' = out.cache.artifact_path
                  /\ IF out.raised = None
                     THEN /\ records' = Append(records,
                                 [k |-> ev.k, train_len |-> TrainLen(train_end),
                                  test |-> train_end,
                                  pred |-> out.result.point_forecast[1]])
                          /\ ev' = [ev EXCEPT !.k = @ + 1, !.logged = None]
                     ELSE /\ records' = records
                          /\ ev' = IF Caught(out.raised)
                                   THEN [ev EXCEPT !.k = @ + 1, !.logged = out.raised]
                                   ELSE [ev EXCEPT !.pc = "done", !.raised = out.raised]
    /\ UNCHANGED <<req, metrics_list, bounds_list, response, PIPELINE,
                   PIPELINE_MODEL_ID, PIPELINE_DEVICE, worker, calls, built, fcVars, auxVars>>

\* a test that asks for one pair too many
TooFewPoints_Inclusive(successes) == successes <= MIN_BACKTEST_POINTS

\* metrics.py:109, `if len(actuals) < 5`
TooFewPoints(successes) == successes < MIN_BACKTEST_POINTS

\* metrics.py:109-111 and 205-206: the loop is over, the metrics of the model
FinishModel ==
    /\ ev.pc = "walk"
    /\ ev.k = req.last_n_weeks
    /\ metrics_list' = IF TooFewPoints(Len(records)) THEN metrics_list
                       ELSE Append(metrics_list,
                                   [model |-> req.models[ev.m], pairs |-> Len(records)])
    /\ ev' = AfterWalk(ev.m)
    /\ UNCHANGED <<req, records, bounds_list, response, attempted, succeeded, constructed,
                   cacheVars, fcVars, auxVars>>

\* metrics.py:214-231: _run_bounds_forecast for models[m]; after the last
\* model the result is returned
BoundsStep ==
    /\ ev.pc = "bounds"
    /\ \E lib \in LibraryBehaviours :
         LET name == req.models[ev.m]
             out == IF name \in {"base", "prophet", "prophet_xgb"}
                    THEN RunModel(name, Clean(req.n), req.lookback_window,
                                  req.confidence_level, BoundsHorizon(req.interval),
                                  lib)
                    ELSE [raised |-> "unknown", result |-> NoResult, made |-> FALSE,
                          cache |-> [artifact |-> artifact,
                                     artifact_path |-> artifact_path]]
         IN /\ constructed' = constructed + (IF out.made THEN 1 ELSE 0)
            /\ artifact' = out.cache.artifact
            /\ artifact_path' = out.cache.artifact_path
            /\ bounds_list' = IF out.raised = None
                              THEN Append(bounds_list,
                                     [model |-> name,
                                      horizon |-> Len(out.result.point_forecast)])
                              ELSE bounds_list
    /\ IF ev.m < Len(req.models)
       THEN /\ ev' = [ev EXCEPT !.m = @ + 1]
            /\ UNCHANGED response
       ELSE /\ ev' = [ev EXCEPT !.pc = "done"]
            /\ response' = [returned |-> TRUE, error |-> FALSE, need |-> 0, have |-> 0]
    /\ UNCHANGED <<req, records, metrics_list, attempted, succeeded, PIPELINE,
                   PIPELINE_MODEL_ID, PIPELINE_DEVICE, worker, calls, built, fcVars, auxVars>>

\* no _mae_rmse_mape call and no endpoint request is under way
NoAggregation == pairs = <<>> /\ agg = NoMetrics

NoRequest == http = HttpIdle

\* the series handed to fit are not kept
Unobserved == given = [observed |-> FALSE, series |-> NotASeries]

NoEvaluation ==
    /\ req = [interval |-> "1wk", last_n_weeks |-> 5, n |-> 0, lookback_window |-> 20,
              models |-> <<"base", "prophet">>, confidence_level |-> 95]
    /\ ev = [EvalStart EXCEPT !.pc = "off"]
    /\ records = <<>>
    /\ metrics_list = <<>>
    /\ bounds_list = <<>>
    /\ response = NoResponse
    /\ attempted = {}
    /\ succeeded = [m \in 1..Len(req.models) |-> 0]
    /\ constructed = 0

EvalInit ==
    /\ NoAssetRequest
    /\ FactoryUntouched
    /\ CacheEmpty
    /\ PoolIdle
    /\ env \in {FullEnv, [FullEnv EXCEPT !.prophet = FALSE],
                [FullEnv EXCEPT !.joblib = FALSE],
                [FullEnv EXCEPT !.artifact_file = FALSE]}
    /\ inst = Absent
    /\ call = NoCall
    /\ fitCompleted = FALSE
    /\ ops = 0
    /\ req \in Requests
    /\ ev = EvalStart
    /\ records = <<>>
    /\ metrics_list = <<>>
    /\ bounds_list = <<>>
    /\ response = NoResponse
    /\ attempted = {}
    /\ succeeded = [m \in 1..Len(req.models) |-> 0]
    /\ constructed = 0
    /\ NoAggregation
    /\ NoRequest
    /\ Unobserved

EvalNext ==
    \/ Refuse
    \/ Accept
    \/ EnterModel
    \/ SkipStep
    \/ WalkStep
    \/ FinishModel
    \/ BoundsStep

SpecEval == EvalInit /\ [][EvalNext]_vars

NoInstance ==
    /\ env = FullEnv
    /\ inst = Absent
    /\ call = NoCall
    /\ fitCompleted = FALSE
    /\ ops = 0

ForecastInit ==
    /\ NoAssetRequest
    /\ FactoryUntouched
    /\ CacheEmpty
    /\ PoolIdle
    /\ NoEvaluation
    /\ env \in Envs
    /\ inst = Absent
    /\ call = NoCall
    /\ fitCompleted = FALSE
    /\ ops = 0
    /\ NoAggregation
    /\ NoRequest
    /\ Unobserved

ForecastNext ==
    \/ Instantiate
    \/ FitBase
    \/ FitLstm
    \/ FitProphet
    \/ FitChronos
    \/ FitProphetXGB
    \/ ForecastBase
    \/ ForecastLstm
    \/ ForecastProphet
    \/ ForecastChronos
    \/ ForecastProphetXGB

SpecForecast == ForecastInit /\ [][ForecastNext]_vars

AggregateInit ==
    /\ NoAssetRequest
    /\ FactoryUntouched
    /\ CacheEmpty
    /\ PoolIdle
    /\ NoInstance
    /\ NoEvaluation
    /\ NoRequest
    /\ Unobserved
    /\ pairs \in PairLists
    /\ agg = NoMetrics

AggregateNext == Aggregate

SpecAggregate == AggregateInit /\ [][AggregateNext]_vars

\* fit calls alone, each kept with the series it was given
FitInit ==
    /\ NoAssetRequest
    /\ FactoryUntouched
    /\ CacheEmpty
    /\ PoolIdle
    /\ NoEvaluation
    /\ NoAggregation
    /\ NoRequest
    /\ env \in Envs
    /\ inst = Absent
    /\ call = NoCall
    /\ fitCompleted = FALSE
    /\ ops = 0
    /\ given = [observed |-> TRUE, series |-> NotASeries]

FitNext ==
    \/ Instantiate
    \/ FitBase
    \/ FitLstm
    \/ FitProphet
    \/ FitChronos
    \/ FitProphetXGB

SpecFit == FitInit /\ [][FitNext]_vars

EndpointInit ==
    /\ NoAssetRequest
    /\ FactoryUntouched
    /\ CacheEmpty
    /\ PoolIdle
    /\ env \in Envs
    /\ inst = Absent
    /\ call = NoCall
    /\ fitCompleted = FALSE
    /\ ops = 0
    /\ NoEvaluation
    /\ NoAggregation
    /\ Unobserved
    /\ http = HttpIdle

EndpointNext ==
    \/ Receive
    \/ RunWorker
    \/ Respond

SpecEndpoint == EndpointInit /\ [][EndpointNext]_vars

FactoryInit ==
    /\ NoAssetRequest
    /\ CacheEmpty
    /\ PoolIdle
    /\ NoInstance
    /\ NoEvaluation
    /\ NoAggregation
    /\ NoRequest
    /\ Unobserved
    /\ models = InitialModels
    /\ fcall = NoFactoryCall

FactoryNext ==
    \/ RegisterModel
    \/ CreateForecaster

SpecFactory == FactoryInit /\ [][FactoryNext]_vars

AssetsInit ==
    /\ FactoryUntouched
    /\ CacheEmpty
    /\ PoolIdle
    /\ NoInstance
    /\ NoEvaluation
    /\ NoAggregation
    /\ NoRequest
    /\ Unobserved
    /\ db \in [rows : SUBSET AssetRows, queries : {NoQueries}]
    /\ rest = RestIdle

AssetsNext ==
    \/ DeleteRequest
    \/ Lookup
    \/ DeleteRow

SpecAssets == AssetsInit /\ [][AssetsNext]_vars

CacheInit ==
    /\ NoAssetRequest
    /\ FactoryUntouched
    /\ CacheEmpty
    /\ PoolIdle
    /\ NoInstance
    /\ NoEvaluation
    /\ NoAggregation
    /\ NoRequest
    /\ Unobserved

SpecCache == CacheInit /\ [][CacheNext]_vars

\* the same requests one after the other: a worker moves only while every
\* other worker is idle
SequentialNext ==
    \E w \in Workers :
        /\ \A v \in Workers \ {w} : worker[v].pc = "idle"
        /\ \/ Submit(w)
           \/ Check(w)
           \/ Construct(w)
           \/ Store(w)
           \/ StoreKey(w)
           \/ StoreDevice(w)
           \/ Return(w)

SpecSequential == CacheInit /\ [][SequentialNext]_vars

\* worker v is between two method calls: idle, or holding a
\* Chronos2Forecaster whose constructor has returned and whose forecast()
\* has not yet used the pipeline
BetweenCalls(v) ==
    \/ worker[v].pc = "idle"
    \/ worker[v].task = "chronos" /\ worker[v].pc = "ret"

\* whole method calls one after the other, on several live instances: a
\* worker moves only while no other worker is inside a method
MethodCallsNext ==
    \E w \in Workers :
        /\ \A v \in Workers \ {w} : BetweenCalls(v)
        /\ \/ Submit(w)
           \/ Check(w)
           \/ Construct(w)
           \/ Store(w)
           \/ StoreKey(w)
           \/ StoreDevice(w)
           \/ Return(w)

SpecMethodCalls == CacheInit /\ [][MethodCallsNext]_vars

(***************************************************************************)
(* Vocabulary of the properties                                            *)
(***************************************************************************)
\* a step of the behaviour that is a forecast() call
ForecastStep == ops' = ops + 1 /\ call'.op = "forecast"

\* the last call was a forecast() that returned a result
ForecastReturned == call.op = "forecast" /\ call.returned

\* lower <= point <= upper at every step of a result
Ordered(result) ==
    \A i \in 1..Len(result.point_forecast) :
        /\ result.lower_bound[i] <= result.point_forecast[i]
        /\ result.point_forecast[i] <= result.upper_bound[i]

\* upper - lower at step i of a result
Width(result, i) == result.upper_bound[i] - result.lower_bound[i]

\* the forecaster of a record saw exactly the positions before its test
\* position, all of them dated before the test timestamp
NoLookAhead(rec) ==
    /\ rec.train_len = rec.test
    /\ \A pos \in 0..(rec.train_len - 1) :
          Timestamp(req.interval, pos) < Timestamp(req.interval, rec.test)

\* window_size + minimum_training_size as the specification states it
RequiredPoints(r) == r.last_n_weeks + (IF r.interval = "1wk" THEN 52 ELSE 24)

\* every step of every requested model went through construct-fit-forecast
AllStepsAttempted ==
    \A m \in 1..Len(req.models) : \A k \in 0..(req.last_n_weeks - 1) :
        <<m, k>> \in attempted

\* the number of steps of models[m] that gave a prediction
Successes(m) == succeeded[m]

\* models[m] has an entry in the metrics
HasEntry(m) == \E j \in 1..Len(metrics_list) : metrics_list[j].model = req.models[m]

\* models[m] has an entry in the returned bounds
HasBounds(m) == \E j \in 1..Len(bounds_list) : bounds_list[j].model = req.models[m]

\* construct, fit on the full series and forecast(horizon) of models[m]
\* raises nothing when the library behaves as lib
FullSeriesRunSucceeds(m, lib) ==
    RunModel(req.models[m], Clean(req.n), req.lookback_window, req.confidence_level,
             BoundsHorizon(req.interval), lib).raised = None

\* the indices of the pairs whose actual value is not zero
NonZero(ps) == {i \in 1..Len(ps) : ps[i][1] # 0}

\* 100 * mean(|actual - predicted| / |actual|) over the pairs of NonZero,
\* in units of 1e-4 percent
MapeOverNonZero(ps) ==
    RoundDiv(SumOver([i \in 1..Len(ps) |->
                         IF i \in NonZero(ps)
                         THEN (Abs(ps[i][1] - ps[i][2]) * 1000000) \div Abs(ps[i][1])
                         ELSE 0], Len(ps)),
             Cardinality(NonZero(ps)))

\* _load_artifact has nothing cached for the path and cannot load it
ArtifactUnavailable ==
    NeedsArtifact(DefaultArtifactPath) /\ (~env.joblib \/ ~env.artifact_file)

\* the last call was a forecast of the hybrid forecaster that returned
HybridReturned == ForecastReturned /\ inst.kind = "prophet_xgb"

\* a step of the behaviour that is a fit() call whose series was kept
FitStep == ops' = ops + 1 /\ call'.op = "fit" /\ given'.observed

\* the series handed to the fit() call of a FitStep
GivenSeries == given'.series

\* the input errors of the Series Validator
InputErrors == {"TypeError", "ValueError"}

\* the minimum length of each strategy as the specification states it
MinimumLength(kind) == IF kind \in {"prophet", "prophet_xgb"} THEN 10 ELSE 5

\* a Series with a DatetimeIndex and no NaN
WellTyped(prices) == prices.isSeries /\ prices.hasDatetimeIndex /\ ~prices.hasNaN

\* the Series Validator, called as fit of instance i calls it, rejects prices
Invalid(i, prices) == validate_prices(prices, min_samples(i.kind, i.window)) # None

\* the clean weekly series of every length
CleanSeries == {Clean(n) : n \in Lens}

\* the key the cache of worker w's task records, None for an empty cache
CachedKey(w) ==
    IF worker[w].task = "xgb"
    THEN (IF artifact = None THEN None ELSE artifact_path)
    ELSE (IF PIPELINE = None THEN None
          ELSE RecordedKey(PIPELINE_MODEL_ID, PIPELINE_DEVICE))

\* the entry the cache of worker w's task holds
CachedEntry(w) == IF worker[w].task = "xgb" THEN artifact ELSE PIPELINE

\* the two caches and the construction counts
cacheState ==
    <<artifact, artifact_path, PIPELINE, PIPELINE_MODEL_ID, PIPELINE_DEVICE, built>>

\* the resource built for a key
ResourceOf(key) ==
    IF key \in Paths THEN joblib_load(key) ELSE Chronos2Pipeline_from_pretrained(key)

\* worker w leaves the if-test of the cache routine
LeavesCheck(w) == worker[w].pc = "check" /\ worker'[w].pc # "check"

\* worker w ends its request
EndsRequest(w) == worker[w].pc = "ret" /\ worker'[w].pc = "idle"

\* the rows of the assets table that carry the symbol of the request
RowsOfSymbol == {r \in db.rows : r.symbol = rest.symbol}

\* the delete queries among a sequence of queries
Deletes(queries) == {j \in 1..Len(queries) : queries[j].op = "delete"}

\* the worker of the request ended with an error of the Series Validator
ValidatorRaised == http.stage = "validate"

\* forecast() on instance i fails its guard (the precondition error)
ForecastNotReady(i) ==
    CASE i.kind = "base" -> SimpleNotReady(i)
      [] i.kind = "lstm" -> LstmNotReady(i)
      [] i.kind = "prophet" -> ProphetNotReady(AsProphet(i))
      [] i.kind = "chronos2" -> ChronosNotReady(i)
      [] i.kind = "prophet_xgb" -> ProphetXGBNotReady(i)
      [] OTHER -> TRUE

\* the evaluator ran construct-fit-forecast for the step it stood at
StepTaken == ev.pc = "walk" /\ <<ev.m, ev.k>> \in attempted' /\ <<ev.m, ev.k>> \notin attempted

\* ... and that step left no record
StepFailed == StepTaken /\ Len(records') = Len(records)

(***************************************************************************)
(* C1: under any interleaving of the pool's workers, the resource of a     *)
(* cache key is constructed at most once while that key stays the cached   *)
(* key (from_pretrained per (model_id, device_map), joblib.load per path). *)
(***************************************************************************)
C1_AtMostOneConstructionPerKey == \A k \in CacheKeys : built[k] <= 1

(***************************************************************************)
(* C3: forecast on an instance on which no fit call has completed fails    *)
(* with ValueError, returns no result and assigns no attribute of the      *)
(* instance, for each of the five forecasters.                             *)
(***************************************************************************)
C3_ForecastBeforeFitFails ==
    [][(ForecastStep /\ ~fitCompleted)
         => /\ call'.raised = "ValueError"
            /\ ~call'.returned
            /\ call'.result = NoResult
            /\ inst' = inst]_vars

\* forecast was refused on an instance that a failed fit left half assigned
C3_Witness ==
    /\ call.op = "forecast"
    /\ call.raised = "ValueError"
    /\ ~fitCompleted
    /\ inst.prices # NoPrices

(***************************************************************************)
(* C4: every result of the Baseline and Recurrent forecasters has          *)
(* lower[i] <= point[i] <= upper[i] at every step i.                       *)
(***************************************************************************)
C4_BoundsOrdered ==
    (ForecastReturned /\ inst.kind \in {"base", "lstm"}) => Ordered(call.result)

(***************************************************************************)
(* C5: every result of the Hybrid forecaster has lower[i] <= point[i] <=   *)
(* upper[i] at every step i, the corrected first step included (the        *)
(* Prophet rows the model draws are all ordered).                          *)
(***************************************************************************)
C5_HybridBoundsOrdered ==
    (ForecastReturned /\ inst.kind = "prophet_xgb") => Ordered(call.result)

(***************************************************************************)
(* C6: for every forecaster and horizon H >= 1, a returned forecast has    *)
(* dates, point_forecast, lower_bound and upper_bound of length exactly H. *)
(***************************************************************************)
C6_LengthIsHorizon ==
    ForecastReturned
      => /\ call.periods >= 1
         /\ Len(call.result.dates) = call.periods
         /\ Len(call.result.point_forecast) = call.periods
         /\ Len(call.result.lower_bound) = call.periods
         /\ Len(call.result.upper_bound) = call.periods

\* a forecast over the longest horizon has returned
C6_Witness == ForecastReturned /\ call.periods = MaxHorizon

(***************************************************************************)
(* C7: with a residual std > 0, the interval width upper[i] - lower[i] of  *)
(* a Baseline or Recurrent result never shrinks from one step to the next. *)
(***************************************************************************)
C7_WidthNonDecreasing ==
    (ForecastReturned /\ inst.kind \in {"base", "lstm"} /\ inst.residual_std > 0)
      => \A i \in 1..(Len(call.result.point_forecast) - 1) :
            Width(call.result, i) <= Width(call.result, i + 1)

(***************************************************************************)
(* C2: every walk-forward record was produced by a forecaster fit on       *)
(* observations that all lie strictly before the test timestamp: the       *)
(* training prefix is exactly the positions before the test position.      *)
(***************************************************************************)
C2_NoLookAhead ==
    /\ \A j \in 1..Len(records) : NoLookAhead(records[j])
    /\ \A size \in {MIN_TRAIN_MONTHLY, MIN_TRAIN_WEEKLY} :
          \A rec \in backtest_one_step(req.n, req.last_n_weeks, size) :
              NoLookAhead(rec)

\* a model has been backtested over a whole window
C2_Witness == ev.pc = "walk" /\ Len(records) = req.last_n_weeks

(***************************************************************************)
(* C8: when the series has at least window_size + minimum_training_size    *)
(* points for its cadence (52 weekly, 24 monthly), the evaluator does not  *)
(* refuse and every step of every requested model is attempted: no other   *)
(* length condition drops a model or a step.                               *)
(***************************************************************************)
C8_LongEnoughSeriesIsEvaluated ==
    (ev.pc = "done" /\ req.n >= RequiredPoints(req))
      => (~response.error /\ AllStepsAttempted)

(***************************************************************************)
(* C9: when the series has fewer than window_size + minimum_training_size  *)
(* points, the evaluator returns an error that reports the shortfall, with *)
(* empty metrics, and constructs and fits no forecaster.                   *)
(***************************************************************************)
C9_ShortSeriesIsRefused ==
    (ev.pc = "done" /\ req.n < RequiredPoints(req))
      => /\ response.returned
         /\ response.error
         /\ response.need = RequiredPoints(req)
         /\ response.have = req.n
         /\ metrics_list = <<>>
         /\ bounds_list = <<>>
         /\ attempted = {}
         /\ constructed = 0

\* a weekly series long enough for a monthly cadence was refused
C9_Witness ==
    /\ ev.pc = "done"
    /\ response.error
    /\ req.interval = "1wk"
    /\ req.n >= req.last_n_weeks + 24

(***************************************************************************)
(* C10: an exception raised while constructing, fitting or forecasting at  *)
(* step k is caught and only that step is skipped: the loop goes on with   *)
(* step k + 1, the records of the other steps stay, and no exception       *)
(* leaves the evaluation.                                                  *)
(***************************************************************************)
C10_FailedStepIsSkipped ==
    /\ [](ev.raised = None)
    /\ [][StepFailed => /\ ev'.pc = "walk"
                        /\ ev'.m = ev.m
                        /\ ev'.k = ev.k + 1
                        /\ ev'.logged # None
                        /\ records' = records
                        /\ metrics_list' = metrics_list]_vars
    /\ [][StepTaken => SubSeq(records', 1, Len(records)) = records]_vars

\* a step failed and a later step of the same model was recorded
C10_Witness ==
    /\ ev.pc = "walk"
    /\ \E j \in 1..Len(records) : \E k \in 0..(records[j].k - 1) :
          /\ <<ev.m, k>> \in attempted
          /\ \A i \in 1..Len(records) : records[i].k # k

(***************************************************************************)
(* C11: a model has an entry in the returned metrics if and only if at     *)
(* least 5 of its walk-forward steps gave a prediction; a model with fewer *)
(* is left out, with no error, and the entries of the other models stay.   *)
(***************************************************************************)
C11_EntryIffFiveSuccesses ==
    /\ (ev.pc = "done" /\ ~response.error)
         => /\ response.returned
            /\ ev.raised = None
            /\ \A m \in 1..Len(req.models) :
                  HasEntry(m) <=> Successes(m) >= 5
    /\ ev.pc \in {"enter", "walk"}
         => \A m \in 1..(ev.m - 1) : HasEntry(m) <=> Successes(m) >= 5

\* two models were evaluated: one kept exactly 5 predictions and has an
\* entry, the other kept between 1 and 4 and has none
C11_Witness ==
    /\ ev.pc = "done"
    /\ \E m1, m2 \in 1..Len(req.models) :
          /\ Successes(m1) = 5 /\ HasEntry(m1)
          /\ Successes(m2) \in 1..4 /\ ~HasEntry(m2)

(***************************************************************************)
(* C12: for a non-empty list of pairs the returned MAPE is 100 times the   *)
(* mean of |actual - predicted| / |actual| over the pairs whose actual is  *)
(* not zero: a pair with a zero actual adds to neither the sum nor the     *)
(* count, and the call raises nothing.                                     *)
(***************************************************************************)
C12_MapeExcludesZeroActuals ==
    agg.returned
      => /\ agg.raised = None
         /\ NonZero(pairs) # {} => agg.mape = MapeOverNonZero(pairs)

C14_DegradedModeReported ==
    (HybridReturned /\ call.degraded)
      => ProphetXGB_get_model_info(inst)
            # ProphetXGB_get_model_info(AfterCorrectedForecast(inst))

(***************************************************************************)
(* C15: fit on a series shorter than the strategy's minimum raises the     *)
(* input error and changes no field of the instance; on a never-fitted     *)
(* instance get_model_info() still reports is_fitted = False and forecast  *)
(* still fails its guard.                                                  *)
(***************************************************************************)
C15_ShortFitLeavesInstance ==
    [][(FitStep /\ GivenSeries.isSeries
          /\ GivenSeries.n < MinimumLength(inst.kind))
         => /\ call'.raised \in InputErrors
            /\ inst' = inst
            /\ ~inst.is_fitted
                 => ~ReportsFitted(inst') /\ ForecastNotReady(inst')]_vars

(***************************************************************************)
(* C16: the Series Validator runs before any other step of fit: a fit call *)
(* with a series the Validator rejects raises TypeError or ValueError and  *)
(* assigns no field of the instance; it never raises ImportError instead.  *)
(***************************************************************************)
C16_ValidatorRunsFirst ==
    [][(FitStep /\ Invalid(inst, GivenSeries))
         => /\ call'.raised \in InputErrors
            /\ call'.raised = validate_prices(GivenSeries,
                                              min_samples(inst.kind, inst.window))
            /\ inst' = inst]_vars

(***************************************************************************)
(* C17: a series whose timestamps are not strictly increasing is rejected  *)
(* by the Series Validator with TypeError, so fit of no strategy proceeds  *)
(* on it: the call raises TypeError and assigns no field.  Stated for a    *)
(* series with no other defect, where the Prophet library is installed.    *)
(***************************************************************************)
C17_UnorderedRejected ==
    [][(FitStep /\ GivenSeries.isSeries /\ ~GivenSeries.ordered /\ env.prophet
          /\ GivenSeries.n >= MinimumLength(inst.kind))
         => /\ call'.raised = "TypeError"
            /\ inst' = inst]_vars

(***************************************************************************)
(* C18: on a clean series (well typed, numeric, ordered, no NaN) fit of    *)
(* the baseline and recurrent forecasters raises ValueError exactly when   *)
(* the series has fewer than 5 points, and fit of the Prophet and hybrid   *)
(* forecasters exactly when it has fewer than 10, whatever the lookback    *)
(* window.  Stated where the Prophet library is installed and the span of  *)
(* the baseline is one pandas accepts.                                     *)
(***************************************************************************)
C18_MinimumLengths ==
    [][(FitStep /\ GivenSeries \in CleanSeries /\ env.prophet
          /\ inst.kind \in {"base", "lstm", "prophet", "prophet_xgb"}
          /\ (inst.kind = "base" => inst.window >= 1))
         => (call'.raised = "ValueError"
               <=> GivenSeries.n < MinimumLength(inst.kind))]_vars

(***************************************************************************)
(* C19: when the call has returned, a requested model has an entry in the  *)
(* bounds exactly when its construct, fit on the full series and           *)
(* forecast(horizon) raise nothing, whatever the evaluator did with the    *)
(* series: an entry needs a run that succeeds, and a model whose run       *)
(* succeeds however the library behaves has an entry.                      *)
(***************************************************************************)
C19_BoundsIndependentOfEvaluator ==
    ev.pc = "done"
      => \A m \in 1..Len(req.models) :
            /\ HasBounds(m) => \E lib \in LibraryBehaviours : FullSeriesRunSucceeds(m, lib)
            /\ (\A lib \in LibraryBehaviours : FullSeriesRunSucceeds(m, lib))
                 => HasBounds(m)

C21_ImportErrorIs503 ==
    http.pc = "responded"
      => /\ http.raised = "ImportError" => http.status = 503
         /\ http.status = 503 => http.raised = "ImportError"

\* the recurrent route answered 503 because the constructor raised
C21_Witness ==
    /\ http.pc = "responded"
    /\ http.route = "lstm"
    /\ http.raised = "ImportError"
    /\ http.stage = "init"
    /\ http.status = 503

C23_ReadersGetTheirOwnArtifact ==
    /\ \A w \in Workers :
          (worker[w].pc = "idle" /\ worker[w].ret # None)
            => worker[w].ret = ResourceOf(worker[w].key)
    /\ (artifact # None /\ artifact_path # None)
          => artifact = ResourceOf(artifact_path)
    /\ (PIPELINE # None /\ PIPELINE_MODEL_ID # None /\ PIPELINE_DEVICE # None)
          => PIPELINE = ResourceOf(RecordedKey(PIPELINE_MODEL_ID, PIPELINE_DEVICE))

(***************************************************************************)
(* C24: when the artifact is loaded, forecast(H) of the hybrid forecaster  *)
(* differs from the forecast(H) of its internal Prophet forecaster in the  *)
(* point estimate of step 1 at most: the dates, the lower and upper bounds *)
(* of every step, step 1 included, and the point estimates of steps 2..H   *)
(* are those of the Prophet forecast.                                      *)
(***************************************************************************)
C24_OnlyFirstPointCorrected ==
    (HybridReturned /\ ~call.degraded)
      => /\ call.result.dates = call.inner.dates
         /\ call.result.lower_bound = call.inner.lower_bound
         /\ call.result.upper_bound = call.inner.upper_bound
         /\ Len(call.result.point_forecast) = Len(call.inner.point_forecast)
         /\ \A h \in 2..Len(call.inner.point_forecast) :
               call.result.point_forecast[h] = call.inner.point_forecast[h]

\* a corrected forecast over the longest horizon moved the first point
C24_Witness ==
    /\ HybridReturned
    /\ ~call.degraded
    /\ call.periods = MaxHorizon
    /\ call.periods >= 2
    /\ call.result.point_forecast[1] # call.inner.point_forecast[1]

(***************************************************************************)
(* C25: every date of a result of the Prophet forecaster is strictly after *)
(* the last training date (the latest date of the series given to fit),    *)
(* whatever dates the library returned: a returned date that is not is     *)
(* replaced by last_date + step * index.                                   *)
(***************************************************************************)
C25_DatesAfterTraining ==
    (ForecastReturned /\ inst.kind = "prophet")
      => \A i \in 1..Len(call.result.dates) :
            call.result.dates[i] > LatestDate(AsProphet(inst))

(***************************************************************************)
(* C26: DELETE /api/v1/assets/{symbol} for a symbol that is not in the     *)
(* table answers 404, issues no delete query and leaves the table as it    *)
(* was; for a symbol that is in the table it issues exactly one delete     *)
(* query, for the id of that symbol's row, the row is gone and the answer  *)
(* is 204 with an empty body.                                              *)
(***************************************************************************)
C26_DeleteAsset ==
    [][/\ (rest.pc = "lookup" /\ RowsOfSymbol = {})
            => /\ rest'.pc = "responded"
               /\ rest'.status = 404
               /\ Deletes(db'.queries) = {}
               /\ db'.rows = db.rows
       /\ (rest.pc = "lookup" /\ RowsOfSymbol # {})
            => /\ rest'.pc = "delete"
               /\ rest'.asset_id \in {r.id : r \in RowsOfSymbol}
               /\ Deletes(db'.queries) = {}
       /\ rest.pc = "delete"
            => /\ rest'.pc = "responded"
               /\ rest'.status = 204
               /\ rest'.body = ""
               /\ Cardinality(Deletes(db'.queries)) = 1
               /\ db'.queries[Len(db'.queries)].id = rest.asset_id
               /\ db'.rows = db.rows \ RowsOfSymbol]_vars

\* a symbol was deleted with 204 and a second request for it got 404
C26_Witness ==
    /\ rest.pc = "responded"
    /\ rest.served = 2
    /\ rest.status = 404
    /\ rest.path = "aapl"
    /\ rest.symbol = "AAPL"
    /\ db.rows = {[id |-> 2, symbol |-> "MSFT"]}
    /\ Len(db.queries) = 1

(***************************************************************************)
(* C27: the pipeline a Chronos2Forecaster's forecast uses is the one built *)
(* for that instance's own (model_id, device_map), also when another       *)
(* Chronos2Forecaster with another configuration was constructed between   *)
(* the construction of the instance and its forecast call.                 *)
(***************************************************************************)
C27_ForecastUsesOwnPipeline ==
    \A w \in Workers :
        (worker[w].task = "chronos" /\ worker[w].pc = "idle" /\ worker[w].ret # None)
          => worker[w].ret = Chronos2Pipeline_from_pretrained(worker[w].key)

(***************************************************************************)
(* C28: the fitted state of an instance that reports is_fitted = true was  *)
(* produced by one successfully completed fit call: a fit call that raises *)
(* on an already fitted instance leaves every attribute as it was or       *)
(* leaves the instance reporting not fitted.                               *)
(***************************************************************************)
C28_FailedFitKeepsOrClears ==
    [][(FitStep /\ ReportsFitted(inst) /\ call'.raised # None)
         => (inst' = inst \/ ~ReportsFitted(inst'))]_vars

(***************************************************************************)
(* C29: once the evaluator has accepted the length of the series, the walk *)
(* of a model passes no position over: whenever it moves on from position  *)
(* k, a forecaster was constructed, fit on the prefix and asked for one    *)
(* step at k, for every lookback_window of the request schema.             *)
(***************************************************************************)
C29_NoPositionPassedOver ==
    [][(ev.pc = "walk" /\ ev'.pc = "walk" /\ ev'.k = ev.k + 1)
         => <<ev.m, ev.k>> \in attempted']_vars

(***************************************************************************)
(* C30: after register_model(name, model_class) has succeeded, for any     *)
(* name, create_forecaster(model_type=name) returns an instance of         *)
(* model_class and does not fail with the unknown-model error.             *)
(***************************************************************************)
C30_RegisteredNameCreatesItsClass ==
    (fcall.op = "register" /\ fcall.raised = None)
      => LET r == create_forecaster(models, fcall.name, TRUE)
         IN r.raised = None /\ r.instance = fcall.model_class

====
